---- MODULE Spec2Model ----
(***************************************************************************)
(* A model of the Raft node of src/src/node.rs: the gRPC service facade    *)
(* (request_vote, append_entries, join), node start-up and the election    *)
(* timer loop, for a small cluster of nodes that exchange RequestVote      *)
(* messages.                                                               *)
(*                                                                         *)
(* RaftDetails (crate::raft) is not part of the available source: its      *)
(* constructor, its campaign (start_election) and the growth of its log    *)
(* are modelled from the specification's section 3 and 4.1.                *)
(***************************************************************************)
EXTENDS Integers, Naturals, Sequences, FiniteSets, TLC

\* ------------------------------------------------------------------ bounds

\* A node does not campaign beyond this term.
MaxTerm == 2
\* Log entries appended in one run, over all nodes.
MaxLog == 1
\* Log entries appended in one run of the specification of the log.
MaxEntries == 2
\* Join requests accepted in one run (caps the growth of the memberships).
MaxJoins == 1
\* Campaigns started in one run of the specification of every operation.
MaxCampaigns == 1
\* Campaigns started in one run of the specification of the terms.
MaxTermCampaigns == 3
\* Campaigns started in one run of the specification of the timer: enough for
\* one node to campaign twice.
MaxTimerCampaigns == 2
\* The last term, and the campaigns started in one run, of the specification
\* of the elections with their scheduling.
MaxLiveTerm == 3
MaxLiveCampaigns == 5
\* Handler invocations in progress at one time, over all nodes.
MaxInbound == 2
\* The shortest and the longest election timeout, in ticks of the clock.
MinTimeout == 1
MaxTimeout == 2
\* Clocks are read up to this many ticks, one past the longest timeout.
MaxElapsed == MaxTimeout + 1

\* ---------------------------------------------------------------- addresses
\* A String is the sequence of its bytes.  '0'..'9' are 48..57.
Dot == 46
Colon == 58
Zero == 48
Nine == 57
LeftBracket == 91
RightBracket == 93
Percent == 37
LowerA == 97
LowerF == 102
UpperA == 65
UpperF == 70

Digit(d) == Zero + d

\* The listen address of node i: "10.0.0.<i>:80".
LocalAddr(i) ==
    <<Digit(1), Digit(0), Dot, Digit(0), Dot, Digit(0), Dot, Digit(i), Colon,
      Digit(8), Digit(0)>>

\* The address list every node is started with, and the nodes.
ConfiguredNodes == <<LocalAddr(1), LocalAddr(2), LocalAddr(3)>>
Nodes == 1..Len(ConfiguredNodes)

\* The node listening at an address, 0 when none does (an unreachable peer).
NodeAt(addr) ==
    IF \E i \in Nodes : LocalAddr(i) = addr
    THEN CHOOSE i \in Nodes : LocalAddr(i) = addr
    ELSE 0

\* -------------------------------------------------------- String::from_utf8
\* Whether a byte sequence is well-formed UTF-8 (Unicode Table 3-7), the
\* test String::from_utf8 applies.
IsCont(b, lo, hi) == b >= lo /\ b <= hi

RECURSIVE ValidUtf8From(_, _)
ValidUtf8From(body, i) ==
    IF i > Len(body) THEN TRUE
    ELSE LET b == body[i]
             has(k) == i + k <= Len(body)
             c(k, lo, hi) == has(k) /\ IsCont(body[i + k], lo, hi)
         IN  IF b <= 127 THEN ValidUtf8From(body, i + 1)
             ELSE IF b >= 194 /\ b <= 223
                  THEN c(1, 128, 191) /\ ValidUtf8From(body, i + 2)
             ELSE IF b = 224
                  THEN c(1, 160, 191) /\ c(2, 128, 191) /\ ValidUtf8From(body, i + 3)
             ELSE IF (b >= 225 /\ b <= 236) \/ b = 238 \/ b = 239
                  THEN c(1, 128, 191) /\ c(2, 128, 191) /\ ValidUtf8From(body, i + 3)
             ELSE IF b = 237
                  THEN c(1, 128, 159) /\ c(2, 128, 191) /\ ValidUtf8From(body, i + 3)
             ELSE IF b = 240
                  THEN c(1, 144, 191) /\ c(2, 128, 191) /\ c(3, 128, 191)
                       /\ ValidUtf8From(body, i + 4)
             ELSE IF b >= 241 /\ b <= 243
                  THEN c(1, 128, 191) /\ c(2, 128, 191) /\ c(3, 128, 191)
                       /\ ValidUtf8From(body, i + 4)
             ELSE IF b = 244
                  THEN c(1, 128, 143) /\ c(2, 128, 191) /\ c(3, 128, 191)
                       /\ ValidUtf8From(body, i + 4)
             ELSE FALSE

\* String::from_utf8(body): [ok, text].
FromUtf8(body) ==
    IF ValidUtf8From(body, 1) THEN [ok |-> TRUE, text |-> body]
    ELSE [ok |-> FALSE, text |-> <<>>]

\* ------------------------------------------------- str::parse::<SocketAddr>
\* A socket address is "a.b.c.d:port" (SocketAddrV4) or "[ipv6]:port",
\* "[ipv6%scope]:port" (SocketAddrV6); the parser tries them in this order.
IsDigit(b) == b >= Zero /\ b <= Nine

\* `let x = v; F(x)`: F applied to the value of v, which is computed once, as
\* a let binding of the parser is.
Bind(v, F(_)) == CHOOSE r \in {F(x) : x \in {v}} : TRUE

\* The index after the run of decimal digits that starts at i.
RECURSIVE DigitsEnd(_, _)
DigitsEnd(s, i) ==
    IF i <= Len(s) /\ IsDigit(s[i]) THEN DigitsEnd(s, i + 1) ELSE i

\* The value of the decimal digits s[i..j-1], 0 for the empty run, computed
\* digit by digit as the parser does; once the value has passed `max` it is
\* left there (checked_mul and checked_add give up at that digit).
RECURSIVE DigitsValue(_, _, _, _)
DigitsValue(s, i, j, max) ==
    IF j <= i THEN 0
    ELSE Bind(DigitsValue(s, i, j - 1, max),
              LAMBDA v : IF v > max THEN v ELSE v * 10 + (s[j - 1] - Zero))

\* Parser::read_number(10, max_digits, allow_zero_prefix) at index i for a
\* type of maximum `max`, maxDigits = 0 standing for None: [ok, value, next].
ReadNumber(s, i, maxDigits, allowZeroPrefix, max) ==
    LET bad == [ok |-> FALSE, value |-> 0, next |-> i]
        leadingZero == i <= Len(s) /\ s[i] = Zero
    IN  Bind(DigitsEnd(s, i), LAMBDA j :
            IF j = i THEN bad
            ELSE IF maxDigits > 0 /\ j - i > maxDigits THEN bad
            ELSE Bind(DigitsValue(s, i, j, max), LAMBDA v :
                    IF v > max THEN bad
                    ELSE IF ~allowZeroPrefix /\ leadingZero /\ j - i > 1 THEN bad
                    ELSE [ok |-> TRUE, value |-> v, next |-> j]))

\* Parser::read_given_char: the index after c at i, 0 when s[i] is not c.
ReadGivenChar(s, i, c) == IF i <= Len(s) /\ s[i] = c THEN i + 1 ELSE 0

\* Parser::read_ipv4_addr: octet k (1..4) of the IPv4 address starting at
\* index i, each after the first preceded by '.': [ok, octets, next].
RECURSIVE ReadIpv4Groups(_, _, _, _)
ReadIpv4Groups(s, i, k, acc) ==
    IF k > 4 THEN [ok |-> TRUE, octets |-> acc, next |-> i]
    ELSE Bind(IF k = 1 THEN i ELSE ReadGivenChar(s, i, Dot), LAMBDA start :
            IF start = 0 THEN [ok |-> FALSE, octets |-> acc, next |-> i]
            ELSE Bind(ReadNumber(s, start, 3, FALSE, 255), LAMBDA r :
                    IF ~r.ok THEN [ok |-> FALSE, octets |-> acc, next |-> i]
                    ELSE ReadIpv4Groups(s, r.next, k + 1,
                                        Append(acc, r.value))))

\* char::to_digit(16): the value of a hexadecimal digit, 16 for any other
\* byte.
HexValue(b) ==
    IF IsDigit(b) THEN b - Zero
    ELSE IF b >= LowerA /\ b <= LowerF THEN b - LowerA + 10
    ELSE IF b >= UpperA /\ b <= UpperF THEN b - UpperA + 10
    ELSE 16

\* The index after the run of hexadecimal digits that starts at i.
RECURSIVE HexEnd(_, _)
HexEnd(s, i) ==
    IF i <= Len(s) /\ HexValue(s[i]) < 16 THEN HexEnd(s, i + 1) ELSE i

\* The value of the hexadecimal digits s[i..j-1].
RECURSIVE HexDigitsValue(_, _, _)
HexDigitsValue(s, i, j) ==
    IF j <= i THEN 0
    ELSE HexDigitsValue(s, i, j - 1) * 16 + HexValue(s[j - 1])

\* Parser::read_number(16, Some(4), true) at index i: one group of an IPv6
\* address, [ok, value, next].
ReadHexGroup(s, i) ==
    Bind(HexEnd(s, i), LAMBDA j :
        IF j = i \/ j - i > 4 THEN [ok |-> FALSE, value |-> 0, next |-> i]
        ELSE [ok |-> TRUE, value |-> HexDigitsValue(s, i, j), next |-> j])

\* read_groups of Parser::read_ipv6_addr: colon-separated groups from index
\* i into at most `limit` slots, `acc` being the groups read so far; where at
\* least two slots are left an embedded IPv4 address is tried first and ends
\* the groups.  [groups, next, ipv4].
RECURSIVE ReadIpv6Groups(_, _, _, _)
ReadIpv6Groups(s, i, limit, acc) ==
    IF Len(acc) >= limit THEN [groups |-> acc, next |-> i, ipv4 |-> FALSE]
    ELSE Bind(IF Len(acc) = 0 THEN i ELSE ReadGivenChar(s, i, Colon),
              LAMBDA start :
         Bind(IF start # 0 /\ Len(acc) < limit - 1
              THEN ReadIpv4Groups(s, start, 1, <<>>)
              ELSE [ok |-> FALSE, octets |-> <<>>, next |-> i],
              LAMBDA v4 :
            IF v4.ok
            THEN [groups |-> acc \o <<v4.octets[1] * 256 + v4.octets[2],
                                      v4.octets[3] * 256 + v4.octets[4]>>,
                  next |-> v4.next, ipv4 |-> TRUE]
            ELSE Bind(IF start # 0 THEN ReadHexGroup(s, start)
                      ELSE [ok |-> FALSE, value |-> 0, next |-> i],
                      LAMBDA g :
                    IF ~g.ok THEN [groups |-> acc, next |-> i, ipv4 |-> FALSE]
                    ELSE ReadIpv6Groups(s, g.next, limit,
                                        Append(acc, g.value)))))

\* Parser::read_ipv6_addr at index i: eight groups, or a head and a tail
\* around one "::" that stands for at least one group of zero.
\* [ok, groups, next].
ReadIpv6Addr(s, i) ==
    LET bad == [ok |-> FALSE, groups |-> <<>>, next |-> i]
    IN  Bind(ReadIpv6Groups(s, i, 8, <<>>), LAMBDA head :
            IF Len(head.groups) = 8
            THEN [ok |-> TRUE, groups |-> head.groups, next |-> head.next]
            ELSE IF head.ipv4 THEN bad
            ELSE LET c1 == ReadGivenChar(s, head.next, Colon)
                     c2 == IF c1 = 0 THEN 0 ELSE ReadGivenChar(s, c1, Colon)
                 IN  IF c2 = 0 THEN bad
                     ELSE Bind(ReadIpv6Groups(s, c2,
                                              8 - (Len(head.groups) + 1), <<>>),
                               LAMBDA tail :
                             [ok |-> TRUE,
                              groups |->
                                 head.groups
                                 \o [k \in 1..(8 - Len(head.groups)
                                                 - Len(tail.groups)) |-> 0]
                                 \o tail.groups,
                              next |-> tail.next]))

\* A u32 is kept as its two 16-bit halves <<hi, lo>>, hi * 2^16 + lo.
Half == 65536

\* The scope id of an address that has none.
NoScope == <<0, 0>>

\* The checked u32 value of the decimal digits s[i..j-1]: [ok, hi, lo], ok
\* FALSE once checked_mul(10) or checked_add(digit) has overflowed.
RECURSIVE U32Digits(_, _, _)
U32Digits(s, i, j) ==
    IF j <= i THEN [ok |-> TRUE, hi |-> 0, lo |-> 0]
    ELSE Bind(U32Digits(s, i, j - 1), LAMBDA p :
            LET lo10 == p.lo * 10 + (s[j - 1] - Zero)
                hi10 == p.hi * 10 + lo10 \div Half
            IN  IF ~p.ok \/ hi10 >= Half THEN [ok |-> FALSE, hi |-> 0, lo |-> 0]
                ELSE [ok |-> TRUE, hi |-> hi10, lo |-> lo10 % Half])

\* Parser::read_scope_id at index i, and unwrap_or(0): "%" and
\* read_number(10, None, true) of a u32; nothing is consumed when that
\* fails.  [value, next].
ReadScopeId(s, i) ==
    Bind(ReadGivenChar(s, i, Percent), LAMBDA c :
        IF c = 0 THEN [value |-> NoScope, next |-> i]
        ELSE Bind(DigitsEnd(s, c), LAMBDA j :
                Bind(U32Digits(s, c, j), LAMBDA v :
                    IF j > c /\ v.ok THEN [value |-> <<v.hi, v.lo>>, next |-> j]
                    ELSE [value |-> NoScope, next |-> i])))

\* Parser::read_socket_addr_v4 at index 1: [ok, ip, port, scope, next].
ReadSocketAddrV4(s) ==
    LET bad == [ok |-> FALSE, ip |-> <<>>, port |-> 0, scope |-> NoScope,
                next |-> 1]
    IN  Bind(ReadIpv4Groups(s, 1, 1, <<>>), LAMBDA g :
            IF ~g.ok \/ ReadGivenChar(s, g.next, Colon) = 0 THEN bad
            ELSE Bind(ReadNumber(s, g.next + 1, 0, TRUE, 65535), LAMBDA p :
                    IF p.ok
                    THEN [ok |-> TRUE, ip |-> g.octets, port |-> p.value,
                          scope |-> NoScope, next |-> p.next]
                    ELSE bad))

\* Parser::read_socket_addr_v6 at index 1: [ok, ip, port, scope, next].
ReadSocketAddrV6(s) ==
    LET bad == [ok |-> FALSE, ip |-> <<>>, port |-> 0, scope |-> NoScope,
                next |-> 1]
    IN  IF ReadGivenChar(s, 1, LeftBracket) = 0 THEN bad
        ELSE Bind(ReadIpv6Addr(s, 2), LAMBDA a :
            IF ~a.ok THEN bad
            ELSE Bind(ReadScopeId(s, a.next), LAMBDA z :
                    LET e == ReadGivenChar(s, z.next, RightBracket)
                        c == IF e # 0 THEN ReadGivenChar(s, e, Colon) ELSE 0
                    IN  IF c = 0 THEN bad
                        ELSE Bind(ReadNumber(s, c, 0, TRUE, 65535), LAMBDA p :
                                IF p.ok
                                THEN [ok |-> TRUE, ip |-> a.groups,
                                      port |-> p.value, scope |-> z.value,
                                      next |-> p.next]
                                ELSE bad)))

\* str_addr.parse::<SocketAddr>(): [ok, ip, port, scope], ip being the four
\* octets of a V4 address or the eight groups of a V6 one; V4 is tried
\* first, and the whole text must be consumed.
ParseSocketAddr(s) ==
    Bind(ReadSocketAddrV4(s), LAMBDA v4 :
        Bind(IF v4.ok THEN v4 ELSE ReadSocketAddrV6(s), LAMBDA a :
            IF a.ok /\ a.next = Len(s) + 1
            THEN [ok |-> TRUE, ip |-> a.ip, port |-> a.port, scope |-> a.scope]
            ELSE [ok |-> FALSE, ip |-> <<>>, port |-> 0, scope |-> NoScope]))

\* --------------------------------------------------------- format!("{}", _)
\* The decimal text of a number, without leading zeros.
RECURSIVE FormatNumber(_)
FormatNumber(n) ==
    IF n < 10 THEN <<Digit(n)>>
    ELSE Append(FormatNumber(n \div 10), Digit(n % 10))

\* The decimal text of the u32 hi * 2^16 + lo, by long division by ten.
RECURSIVE FormatU32(_, _)
FormatU32(hi, lo) ==
    IF hi = 0 THEN FormatNumber(lo)
    ELSE LET t == (hi % 10) * Half + lo
         IN  Append(FormatU32(hi \div 10, t \div 10), Digit(t % 10))

\* {:x} of a group: lower-case hexadecimal without leading zeros.
RECURSIVE FormatHex(_)
FormatHex(n) ==
    LET d == n % 16
        c == IF d < 10 THEN Digit(d) ELSE LowerA + (d - 10)
    IN  IF n < 16 THEN <<c>> ELSE Append(FormatHex(n \div 16), c)

\* Display of Ipv4Addr.
FormatIpv4(o) ==
    FormatNumber(o[1]) \o <<Dot>> \o FormatNumber(o[2]) \o <<Dot>>
    \o FormatNumber(o[3]) \o <<Dot>> \o FormatNumber(o[4])

\* fmt_subslice: the groups g[i..j] in hexadecimal, separated by ':'.
RECURSIVE FormatGroups(_, _, _)
FormatGroups(g, i, j) ==
    IF i > j THEN <<>>
    ELSE IF i = j THEN FormatHex(g[i])
    ELSE FormatHex(g[i]) \o <<Colon>> \o FormatGroups(g, i + 1, j)

\* The length of the run of zero groups that starts at group i.
RECURSIVE ZeroRun(_, _)
ZeroRun(g, i) ==
    IF i <= Len(g) /\ g[i] = 0 THEN 1 + ZeroRun(g, i + 1) ELSE 0

\* Display of Ipv6Addr: an IPv4-mapped address as "::ffff:a.b.c.d";
\* otherwise the first of the longest runs of zero groups, if longer than
\* one group, is written "::".
FormatIpv6(g) ==
    IF ZeroRun(g, 1) = 5 /\ g[6] = 65535
    THEN <<Colon, Colon, LowerF, LowerF, LowerF, LowerF, Colon>>
         \o FormatIpv4(<<g[7] \div 256, g[7] % 256, g[8] \div 256, g[8] % 256>>)
    ELSE Bind(CHOOSE i \in 1..8 :
                 /\ \A k \in 1..8 : ZeroRun(g, k) <= ZeroRun(g, i)
                 /\ \A k \in 1..(i - 1) : ZeroRun(g, k) < ZeroRun(g, i),
              LAMBDA start :
            IF ZeroRun(g, start) > 1
            THEN FormatGroups(g, 1, start - 1) \o <<Colon, Colon>>
                 \o FormatGroups(g, start + ZeroRun(g, start), 8)
            ELSE FormatGroups(g, 1, 8))

\* format!("{}", addr) of a parsed socket address: "a.b.c.d:port" for V4,
\* "[ip]:port" for V6, "[ip%scope]:port" with a scope id other than 0.
FormatSocketAddr(a) ==
    IF Len(a.ip) = 4
    THEN FormatIpv4(a.ip) \o <<Colon>> \o FormatNumber(a.port)
    ELSE <<LeftBracket>> \o FormatIpv6(a.ip)
         \o (IF a.scope = NoScope THEN <<>>
             ELSE <<Percent>> \o FormatU32(a.scope[1], a.scope[2]))
         \o <<RightBracket, Colon>> \o FormatNumber(a.port)

\* -------------------------------------------------------------- the state

\* The empty vote record of a fresh node; no node has this identity.
NoVote == 0

VARIABLES
    current_term,   \* current_term[n]: RaftDetails.current_term of node n
    voted_for,      \* voted_for[n]: RaftDetails.voted_for
    log,            \* log[n]: RaftDetails.log, a sequence of <<index, term>>
    commit_index,   \* commit_index[n]: RaftDetails.commit_index
    cluster,        \* cluster[n]: RaftDetails.cluster, a sequence of addresses
    role,           \* role[n]: "follower", "candidate" or "leader"
    locked,         \* locked[n]: a guard of the details mutex of n is alive
    campaign,       \* campaign[n]: the campaign in progress on n
    voteRequests,   \* RequestVote calls in flight
    voteReplies,    \* VoteReply messages in flight
    last,           \* the last operation served: its request, reply and pre-state
                    \* (for a campaign just ended: the Result start_election
                    \* returns to run)
    granted,        \* granted[n]: the <<term, candidate>> pairs n has voted for
    elected,        \* the <<term, node>> pairs of every leader there has been
    joins,          \* Join requests accepted so far
    campaigns,      \* election timeouts found elapsed so far, one per campaign
    inbound,        \* handler invocations in progress, each at its position
    elapsed,        \* elapsed[n]: clock.elapsed() of the run loop of n, in ticks
    heard,          \* heard[n]: ticks since n last accepted an AppendEntries
    run             \* run[n]: where the loop of run of node n is: "poll" (the
                    \* test of the clock), "lock" (it has reset the clock and
                    \* awaits the lock), "election" (it awaits start_election
                    \* under the lock) or "returned"

vars == <<current_term, voted_for, log, commit_index, cluster, role, locked,
          campaign, voteRequests, voteReplies, last, granted, elected, joins,
          campaigns, inbound, elapsed, heard, run>>

\* The RaftDetails of node n, as the handlers see it under the lock.
Details(n) ==
    [id |-> n,
     current_term |-> current_term[n],
     voted_for |-> voted_for[n],
     log |-> log[n],
     commit_index |-> commit_index[n],
     cluster |-> cluster[n]]

\* nodes.retain(|x| *x != local_addr)
Retain(nodes, local_addr) == SelectSeq(nodes, LAMBDA x : x # local_addr)

\* RaftDetails::new(id, nodes): term 0, empty vote record, empty log,
\* commit index 0.
NewDetails(id, nodes) ==
    [id |-> id, current_term |-> 0, voted_for |-> NoVote, log |-> <<>>,
     commit_index |-> 0, cluster |-> nodes]

\* RaftNode::start(id, local_addr, nodes)
Start(id, local_addr, nodes) == NewDetails(id, Retain(nodes, local_addr))

IdleCampaign == [active |-> FALSE, term |-> 0, targets |-> <<>>, grants |-> 0,
                 waiting |-> 0]

\* No call was served and no campaign ended by the last step.
NoCall == [op |-> "none", node |-> 0, request |-> <<>>, reply |-> <<>>,
           before |-> <<>>]

Init ==
    /\ current_term = [n \in Nodes |-> Start(n, LocalAddr(n), ConfiguredNodes).current_term]
    /\ voted_for = [n \in Nodes |-> Start(n, LocalAddr(n), ConfiguredNodes).voted_for]
    /\ log = [n \in Nodes |-> Start(n, LocalAddr(n), ConfiguredNodes).log]
    /\ commit_index = [n \in Nodes |-> Start(n, LocalAddr(n), ConfiguredNodes).commit_index]
    /\ cluster = [n \in Nodes |-> Start(n, LocalAddr(n), ConfiguredNodes).cluster]
    /\ role = [n \in Nodes |-> "follower"]
    /\ locked = [n \in Nodes |-> FALSE]
    /\ campaign = [n \in Nodes |-> IdleCampaign]
    /\ voteRequests = {}
    /\ voteReplies = {}
    /\ last = NoCall
    /\ granted = [n \in Nodes |-> {}]
    /\ elected = {}
    /\ joins = 0
    /\ campaigns = 0
    /\ inbound = {}
    /\ elapsed = [n \in Nodes |-> 0]
    /\ heard = [n \in Nodes |-> 0]
    /\ run = [n \in Nodes |-> "poll"]

\* Writes the details d back as the state of node n.
SetDetails(n, d) ==
    /\ current_term' = [current_term EXCEPT ![n] = d.current_term]
    /\ voted_for' = [voted_for EXCEPT ![n] = d.voted_for]
    /\ log' = [log EXCEPT ![n] = d.log]
    /\ commit_index' = [commit_index EXCEPT ![n] = d.commit_index]
    /\ cluster' = [cluster EXCEPT ![n] = d.cluster]

\* ------------------------------------------------------------ the handlers
\* Each handler is a function of the details it locks and of its request:
\* [details: the details when the lock is released, reply: the reply].

\* request_vote without its stale-term branch: the vote record alone decides.
RequestVoteNoStaleCheck(details, request) ==
    IF details.voted_for = details.id
    THEN [details |-> details,
          reply |-> [term |-> details.current_term, grant |-> TRUE]]
    ELSE [details |-> details,
          reply |-> [term |-> details.current_term, grant |-> FALSE]]

\* request_vote taking over the term of every request, stale or not.
RequestVoteTakesTerm(details, request) ==
    IF details.voted_for = details.id /\ request.term >= details.current_term
    THEN [details |-> [details EXCEPT !.current_term = request.term],
          reply |-> [term |-> request.term, grant |-> TRUE]]
    ELSE [details |-> [details EXCEPT !.current_term = request.term],
          reply |-> [term |-> request.term, grant |-> FALSE]]

\* request_vote comparing the vote record with the candidate of the request.
RequestVoteForCandidate(details, request) ==
    IF request.term < details.current_term
    THEN [details |-> details,
          reply |-> [term |-> details.current_term, grant |-> FALSE]]
    ELSE IF details.voted_for = request.candidate_id
    THEN [details |-> details,
          reply |-> [term |-> details.current_term, grant |-> TRUE]]
    ELSE [details |-> details,
          reply |-> [term |-> details.current_term, grant |-> FALSE]]

\* RaftNode::request_vote
RequestVote(details, request) ==
    IF request.term < details.current_term
    THEN [details |-> details,
          reply |-> [term |-> details.current_term, grant |-> FALSE]]
    ELSE IF details.voted_for = details.id
    THEN [details |-> details,
          reply |-> [term |-> details.current_term, grant |-> TRUE]]
    ELSE [details |-> details,
          reply |-> [term |-> details.current_term, grant |-> FALSE]]

Min(a, b) == IF a <= b THEN a ELSE b

\* details.log.last() matched to its index, 0 for the empty log.
LastEntryIndex(details) ==
    IF Len(details.log) = 0 THEN 0 ELSE details.log[Len(details.log)][1]

\* append_entries taking the request's commit index as it is, without min.
AppendEntriesNoMin(details, request) ==
    IF request.term < details.current_term
    THEN [details |-> details,
          reply |-> [term |-> details.current_term, success |-> FALSE]]
    ELSE IF request.prev_index > details.commit_index
    THEN [details |-> details,
          reply |-> [term |-> details.current_term, success |-> FALSE]]
    ELSE IF request.commit_index > details.commit_index
    THEN [details |-> [details EXCEPT !.commit_index = request.commit_index],
          reply |-> [term |-> details.current_term, success |-> TRUE]]
    ELSE [details |-> details,
          reply |-> [term |-> details.current_term, success |-> TRUE]]

\* append_entries committing everything it holds, whatever the request commits.
AppendEntriesToLast(details, request) ==
    IF request.term < details.current_term
    THEN [details |-> details,
          reply |-> [term |-> details.current_term, success |-> FALSE]]
    ELSE IF request.prev_index > details.commit_index
    THEN [details |-> details,
          reply |-> [term |-> details.current_term, success |-> FALSE]]
    ELSE IF request.commit_index > details.commit_index
    THEN [details |-> [details EXCEPT !.commit_index = LastEntryIndex(details)],
          reply |-> [term |-> details.current_term, success |-> TRUE]]
    ELSE [details |-> details,
          reply |-> [term |-> details.current_term, success |-> TRUE]]

\* append_entries gating prev_index on the last log index, not on the commit
\* index.
AppendEntriesGateOnLog(details, request) ==
    IF request.term < details.current_term
    THEN [details |-> details,
          reply |-> [term |-> details.current_term, success |-> FALSE]]
    ELSE IF request.prev_index > LastEntryIndex(details)
    THEN [details |-> details,
          reply |-> [term |-> details.current_term, success |-> FALSE]]
    ELSE IF request.commit_index > details.commit_index
    THEN [details |-> [details EXCEPT
                         !.commit_index = Min(request.commit_index,
                                              LastEntryIndex(details))],
          reply |-> [term |-> details.current_term, success |-> TRUE]]
    ELSE [details |-> details,
          reply |-> [term |-> details.current_term, success |-> TRUE]]

\* append_entries taking over the term of a request that is not stale and
\* clearing the vote of the term it leaves.
AppendEntriesTakesTerm(details, request) ==
    IF request.term < details.current_term
    THEN [details |-> details,
          reply |-> [term |-> details.current_term, success |-> FALSE]]
    ELSE IF request.prev_index > details.commit_index
    THEN [details |-> [details EXCEPT
                         !.current_term = request.term,
                         !.voted_for = IF request.term > details.current_term
                                       THEN NoVote ELSE @],
          reply |-> [term |-> request.term, success |-> FALSE]]
    ELSE [details |-> [details EXCEPT
                         !.current_term = request.term,
                         !.voted_for = IF request.term > details.current_term
                                       THEN NoVote ELSE @,
                         !.commit_index =
                            IF request.commit_index > details.commit_index
                            THEN Min(request.commit_index, LastEntryIndex(details))
                            ELSE @],
          reply |-> [term |-> request.term, success |-> TRUE]]

\* RaftNode::append_entries
AppendEntries(details, request) ==
    IF request.term < details.current_term
    THEN [details |-> details,
          reply |-> [term |-> details.current_term, success |-> FALSE]]
    ELSE IF request.prev_index > details.commit_index
    THEN [details |-> details,
          reply |-> [term |-> details.current_term, success |-> FALSE]]
    ELSE IF request.commit_index > details.commit_index
    THEN [details |-> [details EXCEPT
                         !.commit_index = Min(request.commit_index,
                                              LastEntryIndex(details))],
          reply |-> [term |-> details.current_term, success |-> TRUE]]
    ELSE [details |-> details,
          reply |-> [term |-> details.current_term, success |-> TRUE]]

\* join without the SocketAddr check: any text joins as it is.
JoinUnchecked(details, body) ==
    IF FromUtf8(body).ok
    THEN [details |-> [details EXCEPT
                         !.cluster = Append(details.cluster, FromUtf8(body).text)],
          reply |-> "ok"]
    ELSE [details |-> details, reply |-> "error"]

\* join putting the new address in the place of the members held.
JoinReplacesMembers(details, body) ==
    IF FromUtf8(body).ok /\ ParseSocketAddr(FromUtf8(body).text).ok
    THEN [details |-> [details EXCEPT
                         !.cluster =
                            <<FormatSocketAddr(
                                 ParseSocketAddr(FromUtf8(body).text))>>],
          reply |-> "ok"]
    ELSE [details |-> details, reply |-> "error"]

\* join leaving out an address the membership already holds.
JoinDedup(details, body) ==
    IF FromUtf8(body).ok /\ ParseSocketAddr(FromUtf8(body).text).ok
    THEN LET addr == FormatSocketAddr(ParseSocketAddr(FromUtf8(body).text))
         IN  IF \E i \in 1..Len(details.cluster) : details.cluster[i] = addr
             THEN [details |-> details, reply |-> "ok"]
             ELSE [details |-> [details EXCEPT
                                  !.cluster = Append(details.cluster, addr)],
                   reply |-> "ok"]
    ELSE [details |-> details, reply |-> "error"]

\* RaftNode::join: the reply is "ok" (Response Null) or "error"
\* (Status::internal("Unable to join")).
Join(details, body) ==
    Bind(FromUtf8(body), LAMBDA str_addr :
        IF str_addr.ok
        THEN Bind(ParseSocketAddr(str_addr.text), LAMBDA addr :
                IF addr.ok
                THEN [details |-> [details EXCEPT
                                     !.cluster =
                                        Append(details.cluster,
                                               FormatSocketAddr(addr))],
                      reply |-> "ok"]
                ELSE [details |-> details, reply |-> "error"])
        ELSE [details |-> details, reply |-> "error"])

\* ------------------------------------------------------------- the inputs

\* Join payloads, as bytes.
\* "10.0.0.2:080": node 2's address with a zero-prefixed port.
ZeroPortAddr ==
    <<Digit(1), Digit(0), Dot, Digit(0), Dot, Digit(0), Dot, Digit(2), Colon,
      Digit(0), Digit(8), Digit(0)>>
\* "10.0.0.02:80": an octet with a leading zero.
ZeroOctetAddr ==
    <<Digit(1), Digit(0), Dot, Digit(0), Dot, Digit(0), Dot, Digit(0), Digit(2),
      Colon, Digit(8), Digit(0)>>
\* "10.0.0.2:65536": a port that does not fit u16.
BigPortAddr ==
    <<Digit(1), Digit(0), Dot, Digit(0), Dot, Digit(0), Dot, Digit(2), Colon,
      Digit(6), Digit(5), Digit(5), Digit(3), Digit(6)>>
\* "10.0.0.2": no port.
NoPortAddr == <<Digit(1), Digit(0), Dot, Digit(0), Dot, Digit(0), Dot, Digit(2)>>
\* "not-an-address"
NotAnAddress == <<110, 111, 116, 45, 97, 110, 45, 97, 100, 100, 114, 101, 115, 115>>
\* node 3's address followed by the byte 0xFF: not UTF-8.
NotUtf8 == Append(LocalAddr(3), 255)
\* 0xC3 0xA9 ("e" acute) then ":80": UTF-8, not an address.
NonAscii == <<195, 169, Colon, Digit(8), Digit(0)>>

\* "[::1]:80": the IPv6 loopback address as format!("{}", addr) writes it.
Ipv6Addr ==
    <<LeftBracket, Colon, Colon, Digit(1), RightBracket, Colon, Digit(8),
      Digit(0)>>
\* "[0:0:0:0:0:0:0:1]:080": the same address, written in full.
Ipv6FullAddr ==
    <<LeftBracket, Digit(0), Colon, Digit(0), Colon, Digit(0), Colon, Digit(0),
      Colon, Digit(0), Colon, Digit(0), Colon, Digit(0), Colon, Digit(1),
      RightBracket, Colon, Digit(0), Digit(8), Digit(0)>>
\* "::1:80": an IPv6 address without its brackets.
Ipv6NoBrackets == <<Colon, Colon, Digit(1), Colon, Digit(8), Digit(0)>>

JoinPayloads ==
    {LocalAddr(i) : i \in Nodes}
    \cup {ZeroPortAddr, ZeroOctetAddr, BigPortAddr, NoPortAddr, NotAnAddress,
          NotUtf8, NonAscii, Ipv6Addr, Ipv6FullAddr, Ipv6NoBrackets}

\* The AppendEntries requests with indexes up to one past a log of maxLog
\* entries.
EntryRequests(maxLog) ==
    [term : 0..MaxTerm, prev_index : 0..(maxLog + 1),
     commit_index : 0..(maxLog + 1)]

\* ------------------------------------------------------------ the actions

Served(op, n, request, reply) ==
    [op |-> op, node |-> n, request |-> request, reply |-> reply,
     before |-> Details(n)]

\* A Join call served by node n.  The payload is decoded and parsed before
\* the lock is taken, so a failing Join does not wait for it.
ServeJoin(n, body) ==
    LET r == Join(Details(n), body)
    IN  /\ last = NoCall
        /\ r.reply = "ok" => (~locked[n] /\ joins < MaxJoins)
        /\ SetDetails(n, r.details)
        /\ joins' = IF r.reply = "ok" THEN joins + 1 ELSE joins
        /\ last' = Served("join", n, body, r.reply)
        /\ UNCHANGED <<role, locked, campaign, voteRequests, voteReplies,
                       granted, elected, campaigns, inbound, elapsed, heard,
                       run>>

\* An AppendEntries call served by node n.
ServeAppendEntries(n, request) ==
    LET r == AppendEntries(Details(n), request)
    IN  /\ last = NoCall
        /\ ~locked[n]
        /\ SetDetails(n, r.details)
        /\ last' = Served("append_entries", n, request, r.reply)
        /\ heard' = IF r.reply.success THEN [heard EXCEPT ![n] = 0] ELSE heard
        /\ UNCHANGED <<role, locked, campaign, voteRequests, voteReplies,
                       granted, elected, joins, campaigns, inbound, elapsed,
                       run>>

\* The number of log entries the nodes of S hold.
RECURSIVE TotalEntries(_)
TotalEntries(S) ==
    IF S = {} THEN 0
    ELSE LET n == CHOOSE x \in S : TRUE
         IN  Len(log[n]) + TotalEntries(S \ {n})

\* The log of node n grows by one entry, indexed one past its last entry.
AppendLog(n) ==
    /\ last = NoCall
    /\ ~locked[n]
    /\ log' = [log EXCEPT
                 ![n] = Append(@, <<LastEntryIndex(Details(n)) + 1, current_term[n]>>)]
    /\ last' = NoCall
    /\ UNCHANGED <<current_term, voted_for, commit_index, cluster, role, locked,
                   campaign, voteRequests, voteReplies, granted, elected, joins,
                   campaigns, inbound, elapsed, heard, run>>

\* Half of the members, the node itself left out of the count.
QuorumOfHalfTheMembers(grants, members) == 2 * grants >= members

\* Strict majority of the voters: the members of the snapshot and the node.
Quorum(grants, members) == 2 * grants > members + 1

\* The RequestVote calls of a campaign of n for `term`, one per reachable
\* target of the membership snapshot.
Fanout(n, term, targets) ==
    {[from |-> n, to |-> NodeAt(targets[i]), slot |-> i, term |-> term,
      candidate_id |-> n] : i \in {j \in 1..Len(targets) : NodeAt(targets[j]) # 0}}

\* The Results start_election may return to run once a call of the campaign
\* has failed in transport.  Its source is not in the repository: by the
\* specification the campaign counts no reply for the call and goes on, to
\* end with Ok; its Result type, which the `?` of run unwraps, lets it hand
\* the error of the call back instead.  Either may happen.
FailedCallResults == {"ok", "err"}

\* A loop that ends after its first campaign, whatever the Result.
AfterElectionReturns(result) == "returned"

\* RaftNode::run, the `?` on the Result of start_election and the end of the
\* loop body: an Err is returned from run, on Ok the loop polls again.
AfterElection(result) == IF result = "ok" THEN "poll" ELSE "returned"

\* A lock that excludes nobody.
MutexNeverHeld(n) == TRUE

\* The tokio Mutex around the details of n: lock() completes only while no
\* guard is alive.
MutexFree(n) == ~locked[n]

\* The campaign of n ends and start_election returns `result` to run: the
\* lock is released, and the calls of the campaign still in flight are
\* abandoned (their replies would be ignored).  `calls` and `replies` are the
\* messages in flight otherwise.
EndCampaign(n, newRole, result, calls, replies) ==
    /\ run' = [run EXCEPT ![n] = AfterElection(result)]
    /\ last' = Served("start_election", n, <<>>, result)
    /\ voteRequests' = {m \in calls : m.from # n}
    /\ voteReplies' = {m \in replies : m.to # n}
    /\ role' = [role EXCEPT ![n] = newRole]
    /\ locked' = [locked EXCEPT ![n] = FALSE]
    /\ campaign' = [campaign EXCEPT ![n] = IdleCampaign]
    /\ elected' = IF newRole = "leader"
                  THEN elected \cup {<<current_term'[n], n>>}
                  ELSE elected

\* RaftDetails::start_election: the node increments its term, votes for
\* itself and sends RequestVote to every member; the lock its caller took is
\* held until the campaign ends.
StartElection(n) ==
    LET term == current_term[n] + 1
        targets == cluster[n]
        calls == Fanout(n, term, targets)
    IN  /\ current_term' = [current_term EXCEPT ![n] = term]
        /\ voted_for' = [voted_for EXCEPT ![n] = n]
        /\ granted' = [granted EXCEPT ![n] = @ \cup {<<term, n>>}]
        /\ IF Quorum(1, Len(targets))
           THEN EndCampaign(n, "leader", "ok", voteRequests, voteReplies)
           ELSE IF calls = {}
           THEN EndCampaign(n, "candidate", "ok", voteRequests, voteReplies)
           ELSE /\ last' = NoCall
                /\ voteRequests' = voteRequests \cup calls
                /\ voteReplies' = voteReplies
                /\ role' = [role EXCEPT ![n] = "candidate"]
                /\ locked' = [locked EXCEPT ![n] = TRUE]
                /\ campaign' = [campaign EXCEPT
                                  ![n] = [active |-> TRUE, term |-> term,
                                          targets |-> targets, grants |-> 1,
                                          waiting |-> Cardinality(calls)]]
                /\ elected' = elected
                /\ run' = [run EXCEPT ![n] = "election"]
        /\ UNCHANGED <<log, commit_index, cluster, joins, campaigns, inbound,
                       elapsed, heard>>

\* RaftNode::run, a poll that finds the election timeout of n elapsed (how
\* long that takes is left open here): the loop resets its clock and goes
\* for the lock of the details.  The clock counts from here, also while the
\* loop waits for the lock and for the campaign.
TimerExpires(n) ==
    /\ last = NoCall
    /\ run[n] = "poll"
    /\ elapsed' = [elapsed EXCEPT ![n] = 0]
    /\ run' = [run EXCEPT ![n] = "lock"]
    /\ campaigns' = campaigns + 1
    /\ last' = NoCall
    /\ UNCHANGED <<current_term, voted_for, log, commit_index, cluster, role,
                   locked, campaign, voteRequests, voteReplies, granted, elected,
                   joins, inbound, heard>>

\* RaftNode::run, self.details.lock().await.start_election().await: the loop
\* of n is given the lock, which may be some time after it reset its clock,
\* and starts the campaign under it.
LockDetails(n) ==
    /\ last = NoCall
    /\ run[n] = "lock"
    /\ MutexFree(n)
    /\ StartElection(n)

\* Node m.to serves the RequestVote call m and sends its reply.
ServeRequestVote(m) ==
    LET n == m.to
        request == [term |-> m.term, candidate_id |-> m.candidate_id]
        r == RequestVote(Details(n), request)
    IN  /\ last = NoCall
        /\ m \in voteRequests
        /\ ~locked[n]
        /\ SetDetails(n, r.details)
        /\ voteRequests' = voteRequests \ {m}
        /\ voteReplies' = voteReplies \cup
              {[from |-> n, to |-> m.from, slot |-> m.slot, request_term |-> m.term,
                term |-> r.reply.term, grant |-> r.reply.grant]}
        /\ granted' = IF r.reply.grant
                      THEN [granted EXCEPT ![n] = @ \cup {<<m.term, m.candidate_id>>}]
                      ELSE granted
        /\ last' = Served("request_vote", n, request, r.reply)
        /\ UNCHANGED <<role, locked, campaign, elected, joins, campaigns,
                       inbound, elapsed, heard, run>>

\* One call of the campaign of n is settled (answered or failed) without
\* deciding it: n stays candidate once none is left.
Settle(n, grants, calls, replies) ==
    IF campaign[n].waiting = 1
    THEN EndCampaign(n, "candidate", "ok", calls, replies)
    ELSE /\ last' = NoCall
         /\ campaign' = [campaign EXCEPT ![n].grants = grants,
                                         ![n].waiting = @ - 1]
         /\ voteRequests' = calls
         /\ voteReplies' = replies
         /\ UNCHANGED <<role, locked, elected, run>>

\* The campaign of m.to receives the reply m: a higher term ends the
\* candidacy, a grant is tallied and a quorum makes the node leader.
ReceiveVoteReply(m) ==
    LET n == m.to
        replies == voteReplies \ {m}
    IN  /\ last = NoCall
        /\ m \in voteReplies
        /\ IF m.term > current_term[n]
           THEN /\ current_term' = [current_term EXCEPT ![n] = m.term]
                /\ \E v \in {voted_for[n], NoVote} :
                      voted_for' = [voted_for EXCEPT ![n] = v]
                /\ EndCampaign(n, "follower", "ok", voteRequests, replies)
           ELSE /\ UNCHANGED <<current_term, voted_for>>
                /\ IF m.grant /\ Quorum(campaign[n].grants + 1, Len(campaign[n].targets))
                   THEN EndCampaign(n, "leader", "ok", voteRequests, replies)
                   ELSE Settle(n, campaign[n].grants + (IF m.grant THEN 1 ELSE 0),
                               voteRequests, replies)
        /\ UNCHANGED <<log, commit_index, cluster, granted, joins, campaigns,
                       inbound, elapsed, heard>>

\* A RequestVote call fails in transport (the peer is unreachable): the
\* campaign counts no reply for it, or start_election ends there and hands
\* the error to run, the node left a candidate.
CallFails(m) ==
    /\ last = NoCall
    /\ m \in voteRequests
    /\ \E result \in FailedCallResults :
          IF result = "ok"
          THEN Settle(m.from, campaign[m.from].grants, voteRequests \ {m},
                      voteReplies)
          ELSE EndCampaign(m.from, "candidate", result, voteRequests \ {m},
                           voteReplies)
    /\ UNCHANGED <<current_term, voted_for, log, commit_index, cluster,
                   granted, joins, campaigns, inbound, elapsed, heard>>

\* The reply of the call just served is returned to its caller, and the
\* Result of a campaign just ended to run.  A handler computes its reply and
\* replies in one piece under the lock; no step reads `last`, so returning
\* the reply before any other step is taken loses no behaviour of the nodes.
Return ==
    /\ last # NoCall
    /\ last' = NoCall
    /\ UNCHANGED <<current_term, voted_for, log, commit_index, cluster, role,
                   locked, campaign, voteRequests, voteReplies, granted, elected,
                   joins, campaigns, inbound, elapsed, heard, run>>

\* Every operation of the nodes, in runs of at most MaxCampaigns campaigns
\* and MaxLog log entries.
Next ==
    \/ \E n \in Nodes :
          current_term[n] < MaxTerm /\ campaigns < MaxCampaigns /\ TimerExpires(n)
    \/ \E n \in Nodes : LockDetails(n)
    \/ \E m \in voteRequests : ServeRequestVote(m)
    \/ \E m \in voteReplies : ReceiveVoteReply(m)
    \/ \E m \in voteRequests : CallFails(m)
    \/ \E n \in Nodes, body \in JoinPayloads : ServeJoin(n, body)
    \/ \E n \in Nodes, request \in EntryRequests(MaxLog) :
          ServeAppendEntries(n, request)
    \/ \E n \in Nodes : TotalEntries(Nodes) < MaxLog /\ AppendLog(n)
    \/ Return

Spec == Init /\ [][Next]_vars

\* The elections alone: every node campaigns up to term MaxTerm.
NextElection ==
    \/ \E n \in Nodes : current_term[n] < MaxTerm /\ TimerExpires(n)
    \/ \E n \in Nodes : LockDetails(n)
    \/ \E m \in voteRequests : ServeRequestVote(m)
    \/ \E m \in voteReplies : ReceiveVoteReply(m)
    \/ \E m \in voteRequests : CallFails(m)
    \/ Return

SpecElection == Init /\ [][NextElection]_vars

\* The elections with their scheduling: the loop of run is a task of its
\* own that polls without pause, so an election timeout that can expire
\* does; the tokio Mutex is fair and every guard is dropped, so the loop is
\* given the lock it awaits; and a handler that has replied returns.
\* Up to MaxLiveCampaigns campaigns and term MaxLiveTerm, which lets a node
\* that gave up a campaign for a higher term campaign again.
LiveTimerExpires(n) ==
    /\ current_term[n] < MaxLiveTerm
    /\ campaigns < MaxLiveCampaigns
    /\ TimerExpires(n)

NextElectionLive ==
    \/ \E n \in Nodes : LiveTimerExpires(n)
    \/ \E n \in Nodes : LockDetails(n)
    \/ \E m \in voteRequests : ServeRequestVote(m)
    \/ \E m \in voteReplies : ReceiveVoteReply(m)
    \/ \E m \in voteRequests : CallFails(m)
    \/ Return

SpecElectionLive ==
    /\ Init
    /\ [][NextElectionLive]_vars
    /\ \A n \in Nodes : WF_vars(LiveTimerExpires(n))
    /\ \A n \in Nodes : WF_vars(LockDetails(n))
    /\ WF_vars(Return)

\* The terms: AppendEntries and RequestVote calls on nodes whose terms were
\* raised by up to MaxTermCampaigns campaigns.
NextTerms ==
    \/ \E n \in Nodes :
          current_term[n] < MaxTerm /\ campaigns < MaxTermCampaigns /\ TimerExpires(n)
    \/ \E n \in Nodes : LockDetails(n)
    \/ \E m \in voteRequests : ServeRequestVote(m)
    \/ \E m \in voteReplies : ReceiveVoteReply(m)
    \/ \E m \in voteRequests : CallFails(m)
    \/ \E n \in Nodes, request \in EntryRequests(MaxLog) :
          ServeAppendEntries(n, request)
    \/ \E n \in Nodes : TotalEntries(Nodes) < MaxLog /\ AppendLog(n)
    \/ Return

SpecTerms == Init /\ [][NextTerms]_vars

\* The log: AppendEntries calls on nodes that hold up to MaxEntries entries.
NextEntries ==
    \/ \E n \in Nodes :
          current_term[n] < MaxTerm /\ campaigns < MaxCampaigns /\ TimerExpires(n)
    \/ \E n \in Nodes : LockDetails(n)
    \/ \E m \in voteRequests : ServeRequestVote(m)
    \/ \E m \in voteReplies : ReceiveVoteReply(m)
    \/ \E m \in voteRequests : CallFails(m)
    \/ \E n \in Nodes, request \in EntryRequests(MaxEntries) :
          ServeAppendEntries(n, request)
    \/ \E n \in Nodes : TotalEntries(Nodes) < MaxEntries /\ AppendLog(n)
    \/ Return

SpecEntries == Init /\ [][NextEntries]_vars

\* The quorum: campaigns on memberships of 2 and, after a Join, of 3.
QuorumJoinPayloads == {LocalAddr(3)}

NextQuorum ==
    \/ \E n \in Nodes :
          current_term[n] < MaxTerm /\ campaigns < MaxTermCampaigns /\ TimerExpires(n)
    \/ \E n \in Nodes : LockDetails(n)
    \/ \E m \in voteRequests : ServeRequestVote(m)
    \/ \E m \in voteReplies : ReceiveVoteReply(m)
    \/ \E m \in voteRequests : CallFails(m)
    \/ \E n \in Nodes, body \in QuorumJoinPayloads : ServeJoin(n, body)
    \/ Return

SpecQuorum == Init /\ [][NextQuorum]_vars

\* ------------------------------------------------------------ the clock
\* The election timeouts config.new_rand_election_timeout() may draw.
ElectionTimeouts == MinTimeout..MaxTimeout

\* One tick of time passes at every node.
Tick ==
    /\ last = NoCall
    /\ \E n \in Nodes : elapsed[n] < MaxElapsed \/ heard[n] < MaxElapsed
    /\ elapsed' = [n \in Nodes |-> Min(elapsed[n] + 1, MaxElapsed)]
    /\ heard' = [n \in Nodes |-> Min(heard[n] + 1, MaxElapsed)]
    /\ last' = NoCall
    /\ UNCHANGED <<current_term, voted_for, log, commit_index, cluster, role,
                   locked, campaign, voteRequests, voteReplies, granted, elected,
                   joins, campaigns, inbound, run>>

\* RaftNode::run, one poll that finds the timeout elapsed, the timeout being
\* drawn anew at every poll:
\* clock.elapsed() > Duration::from_secs(config.new_rand_election_timeout()),
\* and then clock = Instant::now().  The lock is awaited in a step of its own.
TimeoutElapsed(n, timeout) ==
    /\ elapsed[n] > timeout
    /\ TimerExpires(n)

\* Heartbeats: AppendEntries calls that carry no entry and commit nothing.
Heartbeats ==
    {r \in EntryRequests(0) : r.prev_index = 0 /\ r.commit_index = 0}

\* The timer: time passes, heartbeats are served, and a node campaigns when
\* its loop finds the timeout elapsed.
NextTimer ==
    \/ Tick
    \/ \E n \in Nodes, timeout \in ElectionTimeouts :
          /\ current_term[n] < MaxTerm
          /\ campaigns < MaxTimerCampaigns
          /\ TimeoutElapsed(n, timeout)
    \/ \E n \in Nodes : LockDetails(n)
    \/ \E m \in voteRequests : ServeRequestVote(m)
    \/ \E m \in voteReplies : ReceiveVoteReply(m)
    \/ \E m \in voteRequests : CallFails(m)
    \/ \E n \in Nodes, request \in Heartbeats : ServeAppendEntries(n, request)
    \/ Return

SpecTimer == Init /\ [][NextTimer]_vars

\* ------------------------------------------------- the handlers, step by step
\* The handlers above are taken in one step.  Here a handler is an invocation
\* that first awaits the lock of the details (self.details.lock().await) and
\* then, holding the guard, reads, writes and replies; any number of
\* invocations may be in progress.

\* A handler of the service applied to the details it has locked.
Handle(op, details, request) ==
    CASE op = "request_vote" -> RequestVote(details, request)
      [] op = "append_entries" -> AppendEntries(details, request)
      [] op = "join" -> Join(details, request)

\* An invocation of handler op on node n awaiting the lock; `from` and `slot`
\* name the campaign call it answers, 0 for a call from outside the cluster.
Invocation(n, op, request, from, slot) ==
    [node |-> n, op |-> op, request |-> request, pc |-> "lock", seen |-> <<>>,
     from |-> from, slot |-> slot]

\* The AppendEntries requests and the Join payloads sent to the step-by-step
\* handlers: current requests that pass the gate, and addresses that parse.
LockEntryRequests ==
    {r \in EntryRequests(MaxLog) : r.term = MaxTerm /\ r.prev_index = 0}
LockJoinPayloads == {LocalAddr(1), ZeroPortAddr}

\* An AppendEntries or Join call reaches node n and awaits the lock.  join
\* decodes and parses its payload first and goes for the lock only with an
\* address.
Arrive(n, op, request) ==
    /\ last = NoCall
    /\ Cardinality(inbound) < MaxInbound
    /\ op = "join" =>
          /\ Join(Details(n), request).reply = "ok"
          /\ joins + Cardinality({c \in inbound : c.op = "join"}) < MaxJoins
    /\ inbound' = inbound \cup {Invocation(n, op, request, 0, 0)}
    /\ last' = NoCall
    /\ UNCHANGED <<current_term, voted_for, log, commit_index, cluster, role,
                   locked, campaign, voteRequests, voteReplies, granted, elected,
                   joins, campaigns, elapsed, heard, run>>

\* The RequestVote call m of a campaign reaches its node and awaits the lock.
ArriveRequestVote(m) ==
    /\ last = NoCall
    /\ m \in voteRequests
    /\ Cardinality(inbound) < MaxInbound
    /\ voteRequests' = voteRequests \ {m}
    /\ inbound' = inbound \cup
          {Invocation(m.to, "request_vote",
                      [term |-> m.term, candidate_id |-> m.candidate_id],
                      m.from, m.slot)}
    /\ last' = NoCall
    /\ UNCHANGED <<current_term, voted_for, log, commit_index, cluster, role,
                   locked, campaign, voteReplies, granted, elected, joins,
                   campaigns, elapsed, heard, run>>

\* An invocation that goes on at once, whoever holds the lock.
AcquireWithoutWaiting(c) ==
    /\ last = NoCall
    /\ c \in inbound
    /\ c.pc = "lock"
    /\ locked' = [locked EXCEPT ![c.node] = TRUE]
    /\ inbound' = (inbound \ {c})
                   \cup {[c EXCEPT !.pc = "held", !.seen = Details(c.node)]}
    /\ last' = NoCall
    /\ UNCHANGED <<current_term, voted_for, log, commit_index, cluster, role,
                   campaign, voteRequests, voteReplies, granted, elected, joins,
                   campaigns, elapsed, heard, run>>

\* The invocation c is given the lock: it holds the guard from here on, and
\* `seen` is the state it finds.
Acquire(c) ==
    /\ last = NoCall
    /\ c \in inbound
    /\ c.pc = "lock"
    /\ MutexFree(c.node)
    /\ locked' = [locked EXCEPT ![c.node] = TRUE]
    /\ inbound' = (inbound \ {c})
                   \cup {[c EXCEPT !.pc = "held", !.seen = Details(c.node)]}
    /\ last' = NoCall
    /\ UNCHANGED <<current_term, voted_for, log, commit_index, cluster, role,
                   campaign, voteRequests, voteReplies, granted, elected, joins,
                   campaigns, elapsed, heard, run>>

\* The invocation c runs its handler on the details, replies and drops the
\* guard.  The reply to a RequestVote goes back to the campaign that sent the
\* call, if that campaign is still waiting.
Complete(c) ==
    LET n == c.node
        r == Handle(c.op, Details(n), c.request)
    IN  /\ last = NoCall
        /\ c \in inbound
        /\ c.pc = "held"
        /\ SetDetails(n, r.details)
        /\ locked' = [locked EXCEPT ![n] = FALSE]
        /\ inbound' = inbound \ {c}
        /\ voteReplies' =
              IF /\ c.op = "request_vote"
                 /\ campaign[c.from].active
                 /\ campaign[c.from].term = c.request.term
              THEN voteReplies \cup
                      {[from |-> n, to |-> c.from, slot |-> c.slot,
                        request_term |-> c.request.term,
                        term |-> r.reply.term, grant |-> r.reply.grant]}
              ELSE voteReplies
        /\ granted' =
              IF c.op = "request_vote" /\ r.reply.grant
              THEN [granted EXCEPT
                      ![n] = @ \cup {<<c.request.term, c.request.candidate_id>>}]
              ELSE granted
        /\ joins' = IF c.op = "join" THEN joins + 1 ELSE joins
        /\ heard' = IF c.op = "append_entries" /\ r.reply.success
                    THEN [heard EXCEPT ![n] = 0]
                    ELSE heard
        /\ last' = Served(c.op, n, c.request, r.reply)
        /\ UNCHANGED <<role, campaign, voteRequests, elected, campaigns, elapsed,
                       run>>

\* The handlers step by step, beside one campaign and the growth of the log.
NextLock ==
    \/ \E n \in Nodes :
          current_term[n] < MaxTerm /\ campaigns < MaxCampaigns /\ TimerExpires(n)
    \/ \E n \in Nodes : LockDetails(n)
    \/ \E m \in voteRequests : ArriveRequestVote(m)
    \/ \E m \in voteReplies : ReceiveVoteReply(m)
    \/ \E m \in voteRequests : CallFails(m)
    \/ \E n \in Nodes, request \in LockEntryRequests :
          Arrive(n, "append_entries", request)
    \/ \E n \in Nodes, body \in LockJoinPayloads : Arrive(n, "join", body)
    \/ \E c \in inbound : Acquire(c)
    \/ \E c \in inbound : Complete(c)
    \/ \E n \in Nodes : TotalEntries(Nodes) < MaxLog /\ AppendLog(n)
    \/ Return

SpecLock == Init /\ [][NextLock]_vars


\* ------------------------------------------------------------- the claims

\* The call whose reply is being returned.
IsCall(op) == last.op = op

\* C1: election safety: for every term there is at most one node that is or
\* has ever become leader for that term.
ElectionSafety ==
    \A e1 \in elected : \A e2 \in elected : e1[1] = e2[1] => e1[2] = e2[2]

\* C2: a node casts at most one vote per term: it never grants its vote to two
\* distinct candidates (itself included, when it votes for itself) in one term.
OneVotePerTerm ==
    \A n \in Nodes : \A v1 \in granted[n] : \A v2 \in granted[n] :
        v1[1] = v2[1] => v1[2] = v2[2]

\* C3: higher-term adoption: when a RequestVote or AppendEntries call carries
\* a term greater than the node's current term, the node's current term is the
\* request's term when the handler completes, and the reply carries that term.
HigherTermAdopted ==
    ((IsCall("request_vote") \/ IsCall("append_entries"))
        /\ last.request.term > last.before.current_term)
    => /\ current_term[last.node] = last.request.term
       /\ last.reply.term = current_term[last.node]
       /\ last.reply.term >= last.request.term

\* C4: stale-term rejection: a RequestVote or AppendEntries call whose term is
\* less than the node's current term is rejected (grant = false, success =
\* false) with the node's current term, and leaves the node's term, vote
\* record, log, commit index and membership unchanged.
StaleTermRejected ==
    /\ (IsCall("request_vote") /\ last.request.term < last.before.current_term)
       => /\ last.reply = [term |-> last.before.current_term, grant |-> FALSE]
          /\ Details(last.node) = last.before
    /\ (IsCall("append_entries") /\ last.request.term < last.before.current_term)
       => /\ last.reply = [term |-> last.before.current_term, success |-> FALSE]
          /\ Details(last.node) = last.before

\* A node that has voted for itself has rejected a RequestVote of a lower term.
StaleVoteRejected ==
    /\ IsCall("request_vote")
    /\ last.request.term < last.before.current_term
    /\ last.before.voted_for = last.before.id
    /\ ~last.reply.grant
    /\ current_term[last.node] = last.before.current_term

\* A node has rejected an AppendEntries of a lower term that its commit index
\* would have let through.
StaleEntriesRejected ==
    /\ IsCall("append_entries")
    /\ last.request.term < last.before.current_term
    /\ last.request.prev_index <= last.before.commit_index
    /\ last.request.commit_index > last.before.commit_index
    /\ LastEntryIndex(last.before) > last.before.commit_index
    /\ ~last.reply.success
    /\ commit_index[last.node] = last.before.commit_index

\* C5: the commit index of a node is at most the index of its last log entry
\* (0 for the empty log) in every state, and no step decreases it.
CommitIndexBounded ==
    /\ [](\A n \in Nodes : commit_index[n] <= LastEntryIndex(Details(n)))
    /\ [][\A n \in Nodes : commit_index'[n] >= commit_index[n]]_vars

\* An AppendEntries call has advanced the commit index of a node to the index
\* of its last entry, below the commit index of the request.
CommitAdvanced ==
    /\ IsCall("append_entries")
    /\ last.reply.success
    /\ commit_index[last.node] > last.before.commit_index
    /\ commit_index[last.node] = LastEntryIndex(Details(last.node))
    /\ last.request.commit_index > commit_index[last.node]

\* C6: commit advancement: an AppendEntries call with term >= the current term
\* and prevIndex <= the commit index succeeds; when its commitIndex exceeds the
\* commit index, the commit index becomes the minimum of the request's
\* commitIndex and the index of the last entry held, and stays as it is
\* otherwise.
CommitAdvancement ==
    (IsCall("append_entries")
        /\ last.request.term >= last.before.current_term
        /\ last.request.prev_index <= last.before.commit_index)
    => /\ last.reply.success
       /\ commit_index[last.node] =
             IF last.request.commit_index > last.before.commit_index
             THEN IF last.request.commit_index <= LastEntryIndex(last.before)
                  THEN last.request.commit_index
                  ELSE LastEntryIndex(last.before)
             ELSE last.before.commit_index

\* A node holding more entries than the request commits has advanced its
\* commit index to the request's commitIndex, short of its last entry.
CommitAdvancedToRequest ==
    /\ IsCall("append_entries")
    /\ last.request.term >= last.before.current_term
    /\ last.request.prev_index <= last.before.commit_index
    /\ last.request.commit_index > last.before.commit_index
    /\ last.request.commit_index < LastEntryIndex(last.before)
    /\ last.reply.success
    /\ commit_index[last.node] = last.request.commit_index

\* C7: consistency gate: an AppendEntries call with term >= the current term
\* whose prevIndex exceeds the commit index is answered success = false with
\* the current term and changes nothing, whatever its commitIndex.
ConsistencyGate ==
    (IsCall("append_entries")
        /\ last.request.term >= last.before.current_term
        /\ last.request.prev_index > last.before.commit_index)
    => /\ last.reply = [term |-> last.before.current_term, success |-> FALSE]
       /\ Details(last.node) = last.before

\* A node has refused an AppendEntries whose prevIndex is an entry it holds
\* but has not committed, and whose commitIndex is ahead of its own.
GateRefused ==
    /\ IsCall("append_entries")
    /\ last.request.term >= last.before.current_term
    /\ last.request.prev_index > last.before.commit_index
    /\ last.request.prev_index <= LastEntryIndex(last.before)
    /\ last.request.commit_index > last.before.commit_index
    /\ ~last.reply.success
    /\ commit_index[last.node] = last.before.commit_index

\* The payloads that are no socket address: not UTF-8, not of the form
\* host:port, an octet with a leading zero, a port beyond 65535, an IPv6
\* address without brackets.
UnparseablePayloads ==
    {ZeroOctetAddr, BigPortAddr, NoPortAddr, NotAnAddress, NotUtf8, NonAscii,
     Ipv6NoBrackets}

Unparseable(body) ==
    \/ body \in UnparseablePayloads
    \/ ~FromUtf8(body).ok
    \/ ~ParseSocketAddr(body).ok

\* C8: a Join whose payload is not valid text or does not parse as a host:port
\* address returns an error and leaves the membership, term, vote record, log
\* and commit index as they were.
JoinRejectsUnparseable ==
    (IsCall("join") /\ Unparseable(last.request))
    => /\ last.reply = "error"
       /\ Details(last.node) = last.before

\* A Join of a text that is no address has failed on a node whose membership
\* had grown before.
JoinRejected ==
    /\ IsCall("join")
    /\ last.request = NotAnAddress
    /\ last.reply = "error"
    /\ Len(last.before.cluster) = Len(ConfiguredNodes)
    /\ cluster[last.node] = last.before.cluster

\* The address a payload of this model denotes, as format!("{}", addr) writes
\* it: a zero-prefixed port is written without its zero, an IPv6 address in
\* its shortest form.
JoinedAddress(body) ==
    IF body = ZeroPortAddr THEN LocalAddr(2)
    ELSE IF body = Ipv6FullAddr THEN Ipv6Addr
    ELSE body

\* C9: every successful Join, also of an address already in the membership,
\* grows the membership by exactly one, keeps the previous members, and the
\* joined address is among the fanout targets of the next campaign.
JoinGrowsMembership ==
    /\ []((IsCall("join") /\ last.reply = "ok")
          => /\ Len(cluster[last.node]) = Len(last.before.cluster) + 1
             /\ SubSeq(cluster[last.node], 1, Len(last.before.cluster))
                   = last.before.cluster
             /\ cluster[last.node][Len(cluster[last.node])]
                   = JoinedAddress(last.request))
    /\ [][\A n \in Nodes :
            (run[n] = "lock" /\ run'[n] # "lock")
            => \A i \in 1..Len(cluster[n]) :
                  NodeAt(cluster[n][i]) # 0
                  => \E m \in voteRequests' :
                        /\ m.from = n
                        /\ m.slot = i
                        /\ m.to = NodeAt(cluster[n][i])
                        /\ m.term = current_term'[n]]_vars

\* A campaign is calling a member that joined twice: the membership of the
\* node holds the address of a node a second time, and a RequestVote call of
\* the campaign is in flight to that second place.
JoinedIsTarget ==
    \E n \in Nodes :
        /\ campaign[n].active
        /\ Len(cluster[n]) = Len(ConfiguredNodes)
        /\ \E i \in 1..(Len(cluster[n]) - 1) :
              cluster[n][i] = cluster[n][Len(cluster[n])]
        /\ \E m \in voteRequests :
              /\ m.from = n
              /\ m.slot = Len(cluster[n])
              /\ m.to = NodeAt(cluster[n][Len(cluster[n])])

\* C10: the membership of a node never contains the node's own listen
\* address, after start-up and after any Join requests.
MembershipExcludesSelf ==
    \A n \in Nodes : \A i \in 1..Len(cluster[n]) : cluster[n][i] # LocalAddr(n)

\* C11: the grant rule of RequestVote: the reply grants exactly when the term
\* of the request is at least the node's current term and the vote record of
\* the node names the node itself; the same request from any other candidate
\* gets the same reply.
GrantRule ==
    IsCall("request_vote")
    => /\ last.reply.grant
          = (/\ last.request.term >= last.before.current_term
             /\ last.before.voted_for = last.before.id)
       /\ \A c \in Nodes :
             RequestVote(last.before, [last.request EXCEPT !.candidate_id = c]).reply
                = last.reply

\* A node whose vote record names itself has granted the request of another
\* candidate.
GrantedToOther ==
    /\ IsCall("request_vote")
    /\ last.reply.grant
    /\ last.before.voted_for = last.node
    /\ last.request.candidate_id # last.node
    /\ last.request.term >= last.before.current_term

\* The invocations that hold the guard of the details of n.
Holders(n) == {c \in inbound : c.node = n /\ c.pc = "held"}

\* C12: mutual exclusion on the details of a node: at most one of the
\* handlers and the campaign holds them at a time, and the state a handler
\* found when it got the lock is still the state while it holds it, up to its
\* own write and reply.
MutualExclusion ==
    \A n \in Nodes :
        /\ Cardinality(Holders(n)) + (IF campaign[n].active THEN 1 ELSE 0) <= 1
        /\ \A c \in Holders(n) : c.seen = Details(n)
        /\ (Holders(n) # {} \/ campaign[n].active) => locked[n]

\* An append_entries invocation holds the details of a node while a join
\* awaits the same lock.
LockContended ==
    \E c1 \in inbound : \E c2 \in inbound :
        /\ c1.node = c2.node
        /\ c1.op = "append_entries"
        /\ c1.pc = "held"
        /\ c1.request.commit_index > commit_index[c1.node]
        /\ LastEntryIndex(Details(c1.node)) > commit_index[c1.node]
        /\ c2.op = "join"
        /\ c2.pc = "lock"

\* C13: the current term of a node never decreases: over every step (a
\* RequestVote, AppendEntries or Join served, a campaign started, a reply
\* tallied, a call failed) the term of every node afterwards is at least its
\* term before.
TermNeverDecreases ==
    [][\A n \in Nodes : current_term'[n] >= current_term[n]]_vars

\* A node that campaigned for term 1 and never for term 2 is a follower at
\* term 2, a term it took from a reply, and has since rejected a call of
\* term 1 without going back to it.
TermKeptAfterAdoption ==
    /\ IsCall("request_vote") \/ IsCall("append_entries")
    /\ last.request.term = 1
    /\ <<1, last.node>> \in granted[last.node]
    /\ <<2, last.node>> \notin granted[last.node]
    /\ role[last.node] = "follower"
    /\ last.before.current_term = 2
    /\ current_term[last.node] = 2

\* g of `voters` voters are strictly more than half of them.
StrictMajority(g, voters) == 2 * g > voters

\* A granting reply is on its way to the campaign of n.
GrantInFlight(n) == \E m \in voteReplies : m.to = n /\ m.grant

WithinLiveBounds(n) ==
    current_term[n] < MaxLiveTerm /\ campaigns < MaxLiveCampaigns

HeartbeatSuppressesCampaign ==
    [][\A n \in Nodes :
          (run[n] = "poll" /\ run'[n] = "lock") => heard[n] > MinTimeout]_vars

\* C17: the quorum snapshot: a Join that arrives during a campaign of its
\* node changes neither the targets nor the threshold of that campaign: the
\* membership of a campaigning node is the snapshot its campaign took, the
\* snapshot stays as it is for as long as the campaign lasts, and the
\* membership changes only when no campaign of the node is in progress.
QuorumSnapshot ==
    /\ [](\A n \in Nodes :
            campaign[n].active => cluster[n] = campaign[n].targets)
    /\ [][\A n \in Nodes :
            /\ (campaign[n].active /\ campaign'[n].active)
               => campaign'[n].targets = campaign[n].targets
            /\ cluster'[n] # cluster[n]
               => (~campaign[n].active /\ ~campaign'[n].active)]_vars

\* A Join with an address that parses has arrived at a node in the middle of
\* its campaign and awaits the lock, while a RequestVote of that campaign is
\* still unanswered.
JoinWaitsForCampaign ==
    \E c \in inbound :
        /\ c.op = "join"
        /\ c.pc = "lock"
        /\ campaign[c.node].active
        /\ campaign[c.node].waiting > 0
        /\ cluster[c.node] = campaign[c.node].targets

\* C18: the membership only grows: over every step the members a node held
\* before are still held afterwards, in their places, and the membership of a
\* node changes only in a step that serves a successful Join on that node
\* (not when a RequestVote, an AppendEntries or a failing Join is served, a
\* campaign starts, a reply is tallied or a call fails).
MembershipGrowOnly ==
    [][\A n \in Nodes :
         /\ Len(cluster'[n]) >= Len(cluster[n])
         /\ SubSeq(cluster'[n], 1, Len(cluster[n])) = cluster[n]
         /\ cluster'[n] # cluster[n]
            => /\ last'.op = "join"
               /\ last'.node = n
               /\ last'.reply = "ok"]_vars

\* A node that has campaigned and holds a log entry has served a successful
\* Join: it still holds both configured peers, and one member more.
MembersKept ==
    /\ IsCall("join")
    /\ last.reply = "ok"
    /\ voted_for[last.node] = last.node
    /\ Len(log[last.node]) > 0
    /\ Len(cluster[last.node]) = Len(last.before.cluster) + 1
    /\ \A i \in 1..Len(last.before.cluster) :
          \E j \in 1..Len(cluster[last.node]) :
              cluster[last.node][j] = last.before.cluster[i]

\* The campaign of a holds the lock of a and has a RequestVote call to b
\* that b has not answered.
WaitsFor(a, b) ==
    /\ campaign[a].active
    /\ locked[a]
    /\ \E m \in voteRequests : m.from = a /\ m.to = b

\* C19: campaigns cannot block each other: there is no state in which two
\* nodes each hold their own lock for a campaign while waiting for the
\* other's reply to RequestVote.
CampaignsNeverCrossWait ==
    \A a \in Nodes : \A b \in Nodes :
        a # b => ~(WaitsFor(a, b) /\ WaitsFor(b, a))

\* C20: the frame of the handlers: request_vote changes no field of the
\* details of its node (term, vote record, log, commit index, membership);
\* append_entries changes at most the commit index; join changes at most the
\* membership.
HandlerFrame ==
    /\ IsCall("request_vote") => Details(last.node) = last.before
    /\ IsCall("append_entries")
       => [Details(last.node) EXCEPT !.commit_index = last.before.commit_index]
             = last.before
    /\ IsCall("join")
       => [Details(last.node) EXCEPT !.cluster = last.before.cluster]
             = last.before

\* A node that voted for itself in term 1 has served an AppendEntries of
\* term 2 that moved its commit index: its term is still 1 and its vote is
\* still its own.
OnlyCommitIndexMoved ==
    /\ IsCall("append_entries")
    /\ last.request.term > last.before.current_term
    /\ last.before.voted_for = last.node
    /\ commit_index[last.node] > last.before.commit_index
    /\ current_term[last.node] = last.before.current_term
    /\ voted_for[last.node] = last.node
    /\ log[last.node] = last.before.log
    /\ cluster[last.node] = last.before.cluster

====
